---- MODULE Spec2Model ----
(***************************************************************************)
(* Model of the two encryption examples of the repository.                 *)
(*                                                                         *)
(* src/csfle-py/main.py: the master-key file, the key vault collection     *)
(* with its keyAltNames index, the employee collection, and the processes  *)
(* that run the program against them.                                      *)
(*                                                                         *)
(*   Spec      several processes run __main__ concurrently; every file and *)
(*             database operation is one atomic step.                      *)
(*   FairSpec  the same under weak fairness of every process.              *)
(*   SeqSpec   the processes run __main__ one after another.               *)
(*   ApiSpec   a caller invokes the module's functions one whole call at a *)
(*             time, in any order their arguments allow.                   *)
(*                                                                         *)
(* src/queryable-encryption/python/main.py: one process with an            *)
(* automatically encrypting client on the same collection.                 *)
(*                                                                         *)
(*   QeSpec      main(), and a caller of its operations.                   *)
(*   CallersSpec the callers of both programs.                             *)
(***************************************************************************)
EXTENDS Integers, Sequences, FiniteSets, TLC

\* ------------------------------------------------------------- bounds
NumProcs == 2
MaxNoAlias == 2
MaxSalary == 1
MaxNonce == 2
MaxDocs == 1

Procs == 1..NumProcs

\* ---------------------------------------------------------- constants
\* The key written by load_local_master_key (abbreviated), the content of a
\* file that was opened for writing and not yet written, and "no such file".
MasterKey == "5MxTVQxE"
EmptyContent == ""
NoFile == "ENOENT"
\* Value of a local variable that holds nothing yet.
Unset == "unset"

\* (variant: the presence test looks for the name of the key, not of the index)
WrongIndexName == "keyAltNames"
\* line 52: the name ensure_key_vault_index looks for in index_information()
IndexName == "keyAltNames_1"
\* (variant: unique=True left out)
NonUniqueIndex == [name |-> "keyAltNames_1", unique |-> FALSE, partial |-> TRUE]
\* (variant: partialFilterExpression left out)
NonPartialIndex == [name |-> "keyAltNames_1", unique |-> TRUE, partial |-> FALSE]
\* The index requested by create_index: unique, restricted to the documents
\* where keyAltNames exists; the server names it after its key, keyAltNames_1.
KeyAltNamesIndex == [name |-> "keyAltNames_1", unique |-> TRUE, partial |-> TRUE]

MainAlias == "python_encryption_example"
Aliases == {MainAlias, "other_alias"}

Deterministic == "AEAD_AES_256_CBC_HMAC_SHA_512-Deterministic"

\* The employees list of __main__.
employees ==
  << [name |-> "Alice Johnson", salary |-> 50000],
     [name |-> "Bob Smith", salary |-> 70000] >>

\* Salaries a caller of encrypt_salary may pass.
Salaries == {employees[i].salary : i \in 1..Len(employees)} \cup (0..MaxSalary)
Names == {employees[i].name : i \in 1..Len(employees)}
NoEmp == [name |-> "", salary |-> 0]

NoKeyId == 0
NoRecord == [id |-> NoKeyId, keyAltNames |-> {}, masterKey |-> Unset, keyMaterial |-> 0]
\* No vault operation yet in a call of ensure_data_key; nothing printed yet.
NoAttempts == [lookups |-> 0, inserts |-> 0]
NoOutput == [header |-> << >>, docs |-> << >>]
NoValue == [bsonType |-> "null", alg |-> "", keyId |-> NoKeyId, iv |-> 0, ct |-> 0, tag |-> 0]

VARIABLES
  mode,         \* "main": the processes run __main__; "api": callers call the functions
  keyFile,      \* content of local_master_key.txt, or NoFile
  fileWrites,   \* number of writes of the key file so far (history)
  vaultIndexes, \* indexes of encryption.__keyVault besides _id
  vault,        \* documents of encryption.__keyVault
  coll,         \* documents of employee_data.employee_salary, in insertion order
  pc,           \* where each process is
  called,       \* the setup functions each process has completed (history)
  masterKey,    \* local_master_key of each process
  client_encryption, \* the master key held by the ClientEncryption, or Unset
  key_alt_name, \* argument of ensure_data_key
  data_key_id,  \* data_key_id of each process
  empIdx,       \* position of the loop over employees
  emp,          \* the employee whose salary is being written
  encrypted_salary, \* result of encrypt_salary
  decrypted,    \* rows printed by the last find_all_and_decrypt_salaries of each process
  err,          \* the exception that ended a process, or Unset
  attempts,     \* find_one and create_data_key calls of the ensure_data_key call that is
                \* in progress or just over (history)
  printed       \* what the last search of the Queryable Encryption example printed

shared == <<keyFile, fileWrites, vaultIndexes, vault, coll>>
vars == <<mode, keyFile, fileWrites, vaultIndexes, vault, coll, pc, called, masterKey,
          client_encryption, key_alt_name, data_key_id,
          empIdx, emp, encrypted_salary, decrypted, err, attempts, printed>>

\* ------------------------------------------------------ the key file
\* (variant: the existence test left out, the key written on every call)
FileNeverExists(f) == FALSE
\* os.path.exists(filename)
FileExists(f) == f # NoFile
\* open(filename, "w"): creates the file or truncates it.
OpenForWrite(f) == EmptyContent
\* f.write(key) and the close at the end of the with block.
WriteAndClose(f, key) == key
\* open(filename, "r") and f.read()
ReadFile(f) == f

\* --------------------------------------------------------- the vault
\* The value a record contributes to an index on keyAltNames: one entry per
\* alias; a record without the attribute is left out of a partial index and
\* indexed as null otherwise.
IndexKeys(ix, r) ==
  IF r.keyAltNames # {} THEN r.keyAltNames
  ELSE IF ix.partial THEN {} ELSE {"null"}

\* create_index fails on a collection that already violates a unique index.
IndexBuildFails(ix, v) ==
  ix.unique /\ \E r1 \in v, r2 \in v :
                  r1 # r2 /\ IndexKeys(ix, r1) \cap IndexKeys(ix, r2) # {}

\* insert_one of the key document is rejected by a unique index.
InsertRejected(ixs, v, rec) ==
  \E ix \in ixs : ix.unique /\ \E r \in v : IndexKeys(ix, r) \cap IndexKeys(ix, rec) # {}

\* (variant: the lookup finds nothing)
FindNothing(v, alias) == NoRecord
\* find_one({"keyAltNames": alias}): the first match, None when there is none.
FindOne(v, alias) ==
  LET hits == {r \in v : alias \in r.keyAltNames}
  IN IF hits = {} THEN NoRecord
     ELSE CHOOSE r \in hits : \A q \in hits : r.id <= q.id

FreshId(v) == Cardinality(v) + 1

\* create_data_key("local", key_alt_names=[alias]): a new key document with
\* fresh key material wrapped under the caller's master key.
NewDataKey(v, mk, alias) ==
  [id |-> FreshId(v), keyAltNames |-> {alias}, masterKey |-> mk, keyMaterial |-> FreshId(v)]

\* ---------------------------------------------------- the field cipher
Mac(dek, v) == (dek * 7919 + v) % 65521

KeyById(v, id) ==
  IF \E r \in v : r.id = id THEN CHOOSE r \in v : r.id = id ELSE NoRecord

\* The local KMS unwraps a key document only with the master key that wrapped it.
CanUnwrap(mk, rec) == rec # NoRecord /\ rec.masterKey = mk

\* client_encryption.encrypt(value, algorithm, key_id): a Binary of subtype 6
\* carrying the algorithm, the key id, the IV and the ciphertext with its tag.
\* The deterministic algorithm derives the IV from the key and the value; the
\* random one draws it. The key is fetched from the vault by its id.
Encrypt(value, alg, key_id, v, mk, nonce) ==
  LET rec == KeyById(v, key_id)
      iv == IF alg = Deterministic THEN Mac(rec.keyMaterial, value) ELSE nonce
  IN IF ~CanUnwrap(mk, rec) THEN NoValue
     ELSE [bsonType |-> "binary6", alg |-> alg, keyId |-> rec.id, iv |-> iv,
           ct |-> value + rec.keyMaterial + iv, tag |-> Mac(rec.keyMaterial, value)]

\* (variant: decrypts with the first key of the vault instead of the one the
\* payload names)
DecryptWithFirstKey(payload, v, mk) ==
  LET rec == IF v = {} THEN NoRecord ELSE CHOOSE r \in v : \A q \in v : r.id <= q.id
      pt == payload.ct - rec.keyMaterial - payload.iv
  IN IF payload.bsonType # "binary6" THEN [ok |-> FALSE, value |-> 0]
     ELSE IF ~CanUnwrap(mk, rec) THEN [ok |-> FALSE, value |-> 0]
     ELSE IF Mac(rec.keyMaterial, pt) # payload.tag THEN [ok |-> FALSE, value |-> 0]
     ELSE [ok |-> TRUE, value |-> pt]

\* client_encryption.decrypt(value): resolves the key by the id in the payload.
Decrypt(payload, v, mk) ==
  LET rec == KeyById(v, payload.keyId)
      pt == payload.ct - rec.keyMaterial - payload.iv
  IN IF payload.bsonType # "binary6" THEN [ok |-> FALSE, value |-> 0]
     ELSE IF ~CanUnwrap(mk, rec) THEN [ok |-> FALSE, value |-> 0]
     ELSE IF Mac(rec.keyMaterial, pt) # payload.tag THEN [ok |-> FALSE, value |-> 0]
     ELSE [ok |-> TRUE, value |-> pt]

\* (variant: the salary stored without the conversion to cents)
SalaryNotScaled(salary) == salary
\* int(salary * 100)
SalaryInCents(salary) == salary * 100
\* decrypted_salary / 100.0, as whole units and hundredths
SalaryInDollars(cents) == [units |-> cents \div 100, hundredths |-> cents % 100]

\* A local master key is usable when it is the whole 96-byte key.
ValidLocalKey(k) == k = MasterKey

\* ------------------------------------------------------ control flow
SetupFunctions == {"load_local_master_key", "ensure_key_vault_index",
                   "setup_client_encryption", "ensure_data_key"}

\* (variant: the data key ensured before the index of the vault)
AfterCallIndexLast(fn) ==
  IF mode = "api" THEN "idle"
  ELSE CASE fn = "load_local_master_key" -> "drop"
         [] fn = "drop" -> "setup_ce"
         [] fn = "setup_client_encryption" -> "edk_find"
         [] fn = "ensure_data_key" -> "ekvi_info"
         [] fn = "ensure_key_vault_index" -> "encrypt"
         [] fn = "encrypt_salary" -> "insert"
         [] fn = "find_all_and_decrypt_salaries" -> "find_raw"
         [] fn = "find_all_without_decryption" -> "done"

\* The statement of __main__ that follows a call (lines 112-141); a caller of
\* the functions is free again after each call.
AfterCall(fn) ==
  IF mode = "api" THEN "idle"
  ELSE CASE fn = "load_local_master_key" -> "drop"
         [] fn = "drop" -> "ekvi_info"
         [] fn = "ensure_key_vault_index" -> "setup_ce"
         [] fn = "setup_client_encryption" -> "edk_find"
         [] fn = "ensure_data_key" -> "encrypt"
         [] fn = "encrypt_salary" -> "insert"
         [] fn = "find_all_and_decrypt_salaries" -> "find_raw"
         [] fn = "find_all_without_decryption" -> "done"

Set(f, p, val) == [f EXCEPT ![p] = val]
Returned(p, fn) == IF fn \in SetupFunctions THEN Set(called, p, called[p] \cup {fn}) ELSE called

\* What create_data_key raises when the vault rejects its insert.
DuplicateAliasError == "EncryptionError(DuplicateKeyError)"

\* (variant: the statement that failed is tried again)
RetryAfterError(p, e) == /\ pc' = pc
                         /\ err' = err
\* An exception that nothing catches ends the process.
Raise(p, e) == /\ pc' = Set(pc, p, "crashed")
               /\ err' = Set(err, p, e)

\* ------------------------------------------- load_local_master_key
\* line 13: if not os.path.exists(filename)
load_local_master_key_exists(p) ==
  /\ pc[p] = "lmk_exists"
  /\ pc' = Set(pc, p, IF ~FileExists(keyFile) THEN "lmk_open_w" ELSE "lmk_read")
  /\ UNCHANGED <<mode, printed, attempts, shared, called, masterKey, client_encryption,
                 key_alt_name, data_key_id, empIdx, emp, encrypted_salary, decrypted,
                 err>>

\* line 15: with open(filename, "w") as f
load_local_master_key_open_w(p) ==
  /\ pc[p] = "lmk_open_w"
  /\ keyFile' = OpenForWrite(keyFile)
  /\ pc' = Set(pc, p, "lmk_write")
  /\ UNCHANGED <<mode, printed, attempts, fileWrites, vaultIndexes, vault, coll, called,
                 masterKey, client_encryption, key_alt_name, data_key_id, empIdx, emp,
                 encrypted_salary, decrypted, err>>

\* line 16: f.write(key), flushed when the with block closes the file
load_local_master_key_write(p) ==
  /\ pc[p] = "lmk_write"
  /\ keyFile' = WriteAndClose(keyFile, MasterKey)
  /\ fileWrites' = fileWrites + 1
  /\ pc' = Set(pc, p, "lmk_read")
  /\ UNCHANGED <<mode, printed, attempts, vaultIndexes, vault, coll, called, masterKey,
                 client_encryption, key_alt_name, data_key_id, empIdx, emp,
                 encrypted_salary, decrypted, err>>

\* lines 17-18: with open(filename, "r") as f: return f.read()
load_local_master_key_read(p) ==
  /\ pc[p] = "lmk_read"
  /\ masterKey' = Set(masterKey, p, ReadFile(keyFile))
  /\ called' = Returned(p, "load_local_master_key")
  /\ pc' = Set(pc, p, AfterCall("load_local_master_key"))
  /\ UNCHANGED <<mode, printed, attempts, shared, client_encryption, key_alt_name,
                 data_key_id, empIdx, emp, encrypted_salary, decrypted, err, attempts,
                 printed>>

\* ------------------------------------------------------- coll.drop()
\* (variant: the collection kept from one run to the next)
NotDropped(c) == c
\* line 120: the collection is gone and starts empty when next written
Dropped(c) == << >>

drop(p) ==
  /\ pc[p] = "drop"
  /\ coll' = Dropped(coll)
  /\ pc' = Set(pc, p, AfterCall("drop"))
  /\ UNCHANGED <<mode, printed, attempts, keyFile, fileWrites, vaultIndexes, vault,
                 called, masterKey, client_encryption, key_alt_name, data_key_id, empIdx,
                 emp, encrypted_salary, decrypted, err>>

\* ------------------------------------------ ensure_key_vault_index
\* lines 53-54 and 59-60: indexes = index_information(); if index_name not in indexes
ensure_key_vault_index_info(p) ==
  /\ pc[p] = "ekvi_info"
  /\ LET found == {ix.name : ix \in vaultIndexes}
     IN IF IndexName \notin found
          THEN /\ pc' = Set(pc, p, "ekvi_create")
               /\ called' = called
          ELSE /\ pc' = Set(pc, p, AfterCall("ensure_key_vault_index"))
               /\ called' = Returned(p, "ensure_key_vault_index")
  /\ UNCHANGED <<mode, printed, attempts, shared, masterKey, client_encryption,
                 key_alt_name, data_key_id, empIdx, emp, encrypted_salary, decrypted,
                 err>>

\* lines 55-58: create_index([("keyAltNames", 1)], unique=True, partialFilterExpression=...)
\* An index with the same name and options is left as it is; one with the same
\* name and other options is a conflict; building a unique index over
\* documents that already collide fails.
ensure_key_vault_index_create(p) ==
  /\ pc[p] = "ekvi_create"
  /\ IF KeyAltNamesIndex \in vaultIndexes
       THEN /\ pc' = Set(pc, p, AfterCall("ensure_key_vault_index"))
            /\ called' = Returned(p, "ensure_key_vault_index")
            /\ UNCHANGED <<vaultIndexes, err>>
       ELSE IF \E ix \in vaultIndexes : ix.name = KeyAltNamesIndex.name
         THEN /\ Raise(p, "OperationFailure")
              /\ UNCHANGED <<vaultIndexes, called>>
       ELSE IF IndexBuildFails(KeyAltNamesIndex, vault)
         THEN /\ Raise(p, "DuplicateKeyError")
              /\ UNCHANGED <<vaultIndexes, called>>
       ELSE /\ vaultIndexes' = vaultIndexes \cup {KeyAltNamesIndex}
            /\ pc' = Set(pc, p, AfterCall("ensure_key_vault_index"))
            /\ called' = Returned(p, "ensure_key_vault_index")
            /\ err' = err
  /\ UNCHANGED <<mode, printed, attempts, keyFile, fileWrites, vault, coll, masterKey,
                 client_encryption, key_alt_name, data_key_id, empIdx, emp,
                 encrypted_salary, decrypted>>

\* ----------------------------------------- setup_client_encryption
\* lines 113 and 124 (37-48): ClientEncryption(kms_providers={"local": {"key": key}}, ...)
setup_client_encryption(p) ==
  /\ pc[p] = "setup_ce"
  /\ IF ValidLocalKey(masterKey[p])
       THEN /\ client_encryption' = Set(client_encryption, p, masterKey[p])
            /\ called' = Returned(p, "setup_client_encryption")
            /\ pc' = Set(pc, p, AfterCall("setup_client_encryption"))
            /\ err' = err
       ELSE /\ Raise(p, "MongoCryptError")
            /\ UNCHANGED <<client_encryption, called>>
  /\ UNCHANGED <<mode, printed, attempts, shared, masterKey, key_alt_name, data_key_id,
                 empIdx, emp, encrypted_salary, decrypted>>

\* --------------------------------------------------- ensure_data_key
\* lines 64-67: existing_key = find_one({"keyAltNames": key_alt_name}); if existing_key: return its _id
\* In __main__ the loop over employees starts after the call (line 133).
ensure_data_key_find(p) ==
  /\ pc[p] = "edk_find"
  /\ attempts' = Set(attempts, p, [attempts[p] EXCEPT !.lookups = @ + 1])
  /\ LET found == FindOne(vault, key_alt_name[p])
     IN IF found # NoRecord
             THEN /\ data_key_id' = Set(data_key_id, p, found.id)
                  /\ called' = Returned(p, "ensure_data_key")
                  /\ pc' = Set(pc, p, AfterCall("ensure_data_key"))
                  /\ IF mode = "main"
                       THEN /\ empIdx' = Set(empIdx, p, 1)
                            /\ emp' = Set(emp, p, employees[1])
                       ELSE UNCHANGED <<empIdx, emp>>
             ELSE /\ pc' = Set(pc, p, "edk_create")
                  /\ UNCHANGED <<data_key_id, called, empIdx, emp>>
  /\ UNCHANGED <<mode, printed, shared, masterKey, client_encryption, key_alt_name,
                 encrypted_salary, decrypted, err>>

\* lines 69-71: data_key_id = create_data_key("local", key_alt_names=[key_alt_name])
\* The insert into the vault is rejected when a unique index finds the alias taken;
\* nothing in ensure_data_key catches that.
ensure_data_key_create(p) ==
  /\ pc[p] = "edk_create"
  /\ attempts' = Set(attempts, p, [attempts[p] EXCEPT !.inserts = @ + 1])
  /\ LET rec == NewDataKey(vault, client_encryption[p], key_alt_name[p])
     IN IF InsertRejected(vaultIndexes, vault, rec)
          THEN /\ Raise(p, DuplicateAliasError)
               /\ UNCHANGED <<vault, data_key_id, called, empIdx, emp>>
          ELSE /\ vault' = vault \cup {rec}
               /\ data_key_id' = Set(data_key_id, p, rec.id)
               /\ called' = Returned(p, "ensure_data_key")
               /\ pc' = Set(pc, p, AfterCall("ensure_data_key"))
               /\ err' = err
               /\ IF mode = "main"
                    THEN /\ empIdx' = Set(empIdx, p, 1)
                         /\ emp' = Set(emp, p, employees[1])
                    ELSE UNCHANGED <<empIdx, emp>>
  /\ UNCHANGED <<mode, printed, keyFile, fileWrites, vaultIndexes, coll, masterKey,
                 client_encryption, key_alt_name, encrypted_salary, decrypted>>

\* ---------------------------------------------------- encrypt_salary
\* (variant: the randomized algorithm)
RandomAlgorithm == "AEAD_AES_256_CBC_HMAC_SHA_512-Random"
\* line 78: the algorithm encrypt_salary asks for
SalaryAlgorithm == Deterministic

\* lines 75-81: salary_in_cents = int(salary * 100); encrypt(value, algorithm, key_id)
encrypt_salary(p) ==
  /\ pc[p] = "encrypt"
  /\ attempts' = Set(attempts, p, NoAttempts)
  /\ \E nonce \in 1..MaxNonce :
       LET payload == Encrypt(SalaryInCents(emp[p].salary), SalaryAlgorithm,
                              data_key_id[p], vault, client_encryption[p], nonce)
       IN IF payload = NoValue
            THEN /\ Raise(p, "EncryptionError")
                 /\ UNCHANGED encrypted_salary
            ELSE /\ encrypted_salary' = Set(encrypted_salary, p, payload)
                 /\ pc' = Set(pc, p, AfterCall("encrypt_salary"))
                 /\ err' = err
  /\ UNCHANGED <<mode, printed, shared, called, masterKey, client_encryption,
                 key_alt_name, data_key_id, empIdx, emp, decrypted>>

\* ----------------------------------------------- insert_employee_doc
\* (variant: the salary of the employee stored as it is)
employee_doc_plain(name, salary_encrypted, g_salary) ==
  [name |-> name,
   salary |-> [bsonType |-> "int", alg |-> "", keyId |-> NoKeyId, iv |-> 0,
               ct |-> g_salary, tag |-> 0],
   g_salary |-> g_salary]

\* lines 85-92: the document; g_salary records the salary the payload was made
\* from (history, not stored).
employee_doc(name, salary_encrypted, g_salary) ==
  [name |-> name, salary |-> salary_encrypted, g_salary |-> g_salary]

\* line 93: coll.insert_one(employee_doc); then the next employee (line 133)
insert_employee_doc(p) ==
  /\ pc[p] = "insert"
  /\ coll' = Append(coll, employee_doc(emp[p].name, encrypted_salary[p], emp[p].salary))
  /\ IF mode = "api"
       THEN /\ pc' = Set(pc, p, "idle")
            /\ UNCHANGED <<empIdx, emp>>
       ELSE IF empIdx[p] < Len(employees)
         THEN /\ empIdx' = Set(empIdx, p, empIdx[p] + 1)
              /\ emp' = Set(emp, p, employees[empIdx[p] + 1])
              /\ pc' = Set(pc, p, "encrypt")
         ELSE /\ pc' = Set(pc, p, "find_dec")
              /\ UNCHANGED <<empIdx, emp>>
  /\ UNCHANGED <<mode, printed, attempts, keyFile, fileWrites, vaultIndexes, vault,
                 called, masterKey, client_encryption, key_alt_name, data_key_id,
                 encrypted_salary, decrypted, err>>

\* ------------------------------------- find_all_and_decrypt_salaries
\* lines 98-101: the row printed for one document; keyId and g_salary are history.
DecryptedRow(doc, value) ==
  [name |-> doc.name, salary |-> SalaryInDollars(value),
   keyId |-> doc.salary.keyId, g_salary |-> doc.g_salary]

\* lines 97-101: for doc in coll.find(): decrypt, divide by 100.0, print.
\* A failing decrypt raises after the rows before it were printed.
find_all_and_decrypt_salaries(p) ==
  /\ pc[p] = "find_dec"
  /\ LET res == [i \in 1..Len(coll) |-> Decrypt(coll[i].salary, vault, client_encryption[p])]
         bad == {i \in 1..Len(coll) : ~res[i].ok}
         n == IF bad = {} THEN Len(coll)
              ELSE (CHOOSE i \in bad : \A j \in bad : i <= j) - 1
     IN /\ decrypted' = Set(decrypted, p, [i \in 1..n |-> DecryptedRow(coll[i], res[i].value)])
        /\ IF bad = {}
             THEN /\ pc' = Set(pc, p, AfterCall("find_all_and_decrypt_salaries"))
                  /\ err' = err
             ELSE Raise(p, "EncryptionError")
  /\ UNCHANGED <<mode, printed, attempts, shared, called, masterKey, client_encryption,
                 key_alt_name, data_key_id, empIdx, emp, encrypted_salary>>

\* --------------------------------------- find_all_without_decryption
\* lines 105-106: what is printed for each stored document
Shown(docs) == [i \in 1..Len(docs) |-> [name |-> docs[i].name, salary |-> docs[i].salary]]

find_all_without_decryption(p) ==
  /\ pc[p] = "find_raw"
  /\ pc' = Set(pc, p, AfterCall("find_all_without_decryption"))
  /\ UNCHANGED <<mode, printed, attempts, shared, called, masterKey, client_encryption,
                 key_alt_name, data_key_id, empIdx, emp, encrypted_salary, decrypted,
                 err>>

\* ------------------------------------------- callers of the functions
\* The employees a caller may pass: those of __main__ and small salaries.
Employees == {employees[i] : i \in 1..Len(employees)}
               \cup {[name |-> employees[1].name, salary |-> s] : s \in 0..MaxSalary}

\* A caller that is between calls starts any function whose arguments it has:
\* a ClientEncryption needs the master key, ensure_data_key and the decrypting
\* read need the ClientEncryption, encrypt_salary needs a data key id as well,
\* insert_employee_doc needs an encrypted salary. The calls of one caller follow
\* one another; what the previous call printed is gone.
Callers == {1}

Call(p) ==
  /\ mode = "api"
  /\ p \in Callers
  /\ pc[p] = "idle"
  /\ decrypted' = Set(decrypted, p, << >>)
  /\ attempts' = Set(attempts, p, NoAttempts)
  /\ \/ /\ pc' = Set(pc, p, "lmk_exists")
        /\ UNCHANGED <<key_alt_name, emp>>
     \/ /\ pc' = Set(pc, p, "drop")
        /\ UNCHANGED <<key_alt_name, emp>>
     \/ /\ pc' = Set(pc, p, "ekvi_info")
        /\ UNCHANGED <<key_alt_name, emp>>
     \/ /\ masterKey[p] # Unset
        /\ pc' = Set(pc, p, "setup_ce")
        /\ UNCHANGED <<key_alt_name, emp>>
     \/ /\ client_encryption[p] # Unset
        /\ \E alias \in Aliases : key_alt_name' = Set(key_alt_name, p, alias)
        /\ pc' = Set(pc, p, "edk_find")
        /\ UNCHANGED emp
     \/ /\ client_encryption[p] # Unset
        /\ data_key_id[p] # NoKeyId
        /\ \E e \in Employees : emp' = Set(emp, p, e)
        /\ pc' = Set(pc, p, "encrypt")
        /\ UNCHANGED key_alt_name
     \/ /\ encrypted_salary[p] # NoValue
        /\ Len(coll) < MaxDocs
        /\ pc' = Set(pc, p, "insert")
        /\ UNCHANGED <<key_alt_name, emp>>
     \/ /\ client_encryption[p] # Unset
        /\ pc' = Set(pc, p, "find_dec")
        /\ UNCHANGED <<key_alt_name, emp>>
     \/ /\ pc' = Set(pc, p, "find_raw")
        /\ UNCHANGED <<key_alt_name, emp>>
  /\ UNCHANGED <<mode, printed, shared, called, masterKey, client_encryption,
                 data_key_id, empIdx, encrypted_salary, err>>

\* ------------------------------------------------- the specifications
\* Key documents without keyAltNames that other users of the vault left there.
NoAliasKeys(k) ==
  {[id |-> i, keyAltNames |-> {}, masterKey |-> MasterKey, keyMaterial |-> i] : i \in 1..k}

InitShared ==
  /\ keyFile = NoFile
  /\ fileWrites = 0
  /\ vaultIndexes = {}
  /\ \E k \in 0..MaxNoAlias : vault = NoAliasKeys(k)
  /\ coll = << >>

InitLocals ==
  /\ called = [p \in Procs |-> {}]
  /\ masterKey = [p \in Procs |-> Unset]
  /\ client_encryption = [p \in Procs |-> Unset]
  /\ key_alt_name = [p \in Procs |-> MainAlias]
  /\ data_key_id = [p \in Procs |-> NoKeyId]
  /\ empIdx = [p \in Procs |-> 0]
  /\ emp = [p \in Procs |-> NoEmp]
  /\ encrypted_salary = [p \in Procs |-> NoValue]
  /\ decrypted = [p \in Procs |-> << >>]
  /\ err = [p \in Procs |-> Unset]
  /\ attempts = [p \in Procs |-> NoAttempts]
  /\ printed = [p \in Procs |-> NoOutput]

\* Every process is at line 112 of __main__.
Init ==
  /\ mode = "main"
  /\ pc = [p \in Procs |-> "lmk_exists"]
  /\ InitShared
  /\ InitLocals

InitApi ==
  /\ mode = "api"
  /\ pc = [p \in Procs |-> "idle"]
  /\ keyFile = NoFile
  /\ fileWrites = 0
  /\ vaultIndexes = {}
  /\ vault = {}
  /\ coll = << >>
  /\ InitLocals

Step(p) ==
  \/ load_local_master_key_exists(p)
  \/ load_local_master_key_open_w(p)
  \/ load_local_master_key_write(p)
  \/ load_local_master_key_read(p)
  \/ drop(p)
  \/ ensure_key_vault_index_info(p)
  \/ ensure_key_vault_index_create(p)
  \/ setup_client_encryption(p)
  \/ ensure_data_key_find(p)
  \/ ensure_data_key_create(p)
  \/ encrypt_salary(p)
  \/ insert_employee_doc(p)
  \/ find_all_and_decrypt_salaries(p)
  \/ find_all_without_decryption(p)

Next == \E p \in Procs : Step(p)

NextApi == \E p \in Procs : Call(p) \/ Step(p)

Spec == Init /\ [][Next]_vars

ApiSpec == InitApi /\ [][NextApi]_vars

\* Runs of __main__ one after another on the same database and key file: a
\* process starts only when no other is between its first and last statement.
AtRest(q) == pc[q] \in {"lmk_exists", "done", "crashed"}
NextSeq == \E p \in Procs : (\A q \in Procs \ {p} : AtRest(q)) /\ Step(p)
SeqSpec == Init /\ [][NextSeq]_vars

\* The runs of __main__ under a scheduler that lets every process that can
\* take a step take one eventually.
FairSpec == Init /\ [][Next]_vars /\ \A p \in Procs : WF_vars(Step(p))

\* ====================================================================
\* The Queryable Encryption example (src/queryable-encryption/python/main.py):
\* one process with an automatically encrypting MongoClient.
\*
\*   QeSpec   mode "qe_main": the process runs main();
\*            mode "qe_api": after the client is built, the caller inserts,
\*            drops and searches in any order, with arguments of its choice.
\* ====================================================================
MaxQeDocs == 2

\* (variant: a smaller upper end of the salary domain)
fields_map_max_100000 ==
  [fields |-> <<
     [keyId |-> NoKeyId, path |-> "name", bsonType |-> "string",
      queries |-> <<[queryType |-> "equality"]>>],
     [keyId |-> NoKeyId, path |-> "salary", bsonType |-> "int",
      queries |-> <<[queryType |-> "range", min |-> 0, max |-> 100000]>>] >>]

\* (variant: the ends of the salary domain exchanged)
fields_map_min_above_max ==
  [fields |-> <<
     [keyId |-> NoKeyId, path |-> "name", bsonType |-> "string",
      queries |-> <<[queryType |-> "equality"]>>],
     [keyId |-> NoKeyId, path |-> "salary", bsonType |-> "int",
      queries |-> <<[queryType |-> "range", min |-> 1000000, max |-> 0]>>] >>]

\* get_encrypted_fields_map(): lines 26-42
get_encrypted_fields_map ==
  [fields |-> <<
     [keyId |-> NoKeyId, path |-> "name", bsonType |-> "string",
      queries |-> <<[queryType |-> "equality"]>>],
     [keyId |-> NoKeyId, path |-> "salary", bsonType |-> "int",
      queries |-> <<[queryType |-> "range", min |-> 0, max |-> 1000000]>>] >>]

\* The declaration of one path and its one query.
Field(map, path) ==
  LET i == CHOOSE k \in 1..Len(map.fields) : map.fields[k].path = path
  IN map.fields[i]
Query(map, path) == Field(map, path).queries[1]

\* What the driver accepts as an encrypted-fields declaration: every field has
\* exactly one query; a range query is over an orderable type and has min <= max.
OrderableTypes == {"int", "long", "double", "decimal", "date"}
ValidQuery(f) ==
  /\ Len(f.queries) = 1
  /\ f.queries[1].queryType \in {"equality", "range"}
  /\ f.queries[1].queryType = "range" =>
       /\ f.bsonType \in OrderableTypes
       /\ f.queries[1].min <= f.queries[1].max
ValidFieldsMap(map) == \A k \in 1..Len(map.fields) : ValidQuery(map.fields[k])

\* The employees list of main(), lines 84-90 (name and salary).
qe_employees ==
  << [name |-> "Alice Johnson", salary |-> 100000],
     [name |-> "Bob Smith", salary |-> 150000],
     [name |-> "Charlie Brown", salary |-> 200000],
     [name |-> "Diana Prince", salary |-> 250000],
     [name |-> "Evan Peters", salary |-> 80000] >>

\* The arguments of the searches in main(), lines 96-97.
MainSearchName == "Alice Johnson"
MainSearchRange == [min_salary |-> 150000, max_salary |-> 200000]

\* Strings are encrypted through their position in the list of known names.
QeNames == {qe_employees[i].name : i \in 1..Len(qe_employees)}
NameCode(n) == CHOOSE i \in 1..Len(qe_employees) : qe_employees[i].name = n
NameOfCode(c) == qe_employees[c].name

\* Key material of the data key the driver uses for a field whose keyId is None.
FieldKeyMaterial(path) == IF path = "name" THEN 11 ELSE 13

\* The payload of an encrypted field: Binary subtype 6 with the ciphertext and
\* the token the server searches by. An equality token tells equal values
\* from different ones; a range token tells the position of the value in the
\* declared domain. A value outside the domain of a range field has no token.
InDomain(q, value) == q.min <= value /\ value <= q.max
EqualityToken(path, code) == Mac(FieldKeyMaterial(path), code)
RangeToken(q, value) == value - q.min
EncryptName(map, n) ==
  [bsonType |-> "binary6", alg |-> "Indexed",
   ct |-> NameCode(n) + FieldKeyMaterial("name"),
   token |-> EqualityToken("name", NameCode(n))]
EncryptSalary(map, s) ==
  [bsonType |-> "binary6", alg |-> "Range",
   ct |-> s + FieldKeyMaterial("salary"),
   token |-> RangeToken(Query(map, "salary"), s)]

\* What the driver raises when a value is outside the domain of its range
\* field, and when the declaration of the fields is not acceptable.
DomainRangeError == "EncryptionError(value outside the range min..max)"
SchemaValidationError == "EncryptionError(invalid encryptedFields)"

\* insert_one through the encrypting client: both declared fields are replaced
\* by their payloads; g holds the employee the document was made from (history).
AutoEncrypt(map, e) ==
  [name |-> EncryptName(map, e.name), salary |-> EncryptSalary(map, e.salary), g |-> e]
\* find through the encrypting client decrypts what the server returns.
AutoDecrypt(doc) ==
  [name |-> NameOfCode(doc.name.ct - FieldKeyMaterial("name")),
   salary |-> doc.salary.ct - FieldKeyMaterial("salary")]

\* (variant: the upper end compared with $lt)
filter_gte_lt(map, doc, min_salary, max_salary) ==
  LET q == Query(map, "salary")
  IN RangeToken(q, min_salary) <= doc.salary.token /\ doc.salary.token < RangeToken(q, max_salary)
\* line 52: {"salary": {"$gte": min_salary, "$lte": max_salary}}, evaluated by
\* the server on the tokens.
filter_gte_lte(map, doc, min_salary, max_salary) ==
  LET q == Query(map, "salary")
  IN RangeToken(q, min_salary) <= doc.salary.token /\ doc.salary.token <= RangeToken(q, max_salary)
\* (variant: a filter that matches every document)
filter_any(doc, name) == TRUE
\* line 45: {"name": name}
filter_name(doc, name) == doc.name.token = EqualityToken("name", NameCode(name))

Decrypted(docs) == [i \in 1..Len(docs) |-> AutoDecrypt(docs[i])]

\* Where main() is, or a caller between two operations.
QeAt(p, where) == IF mode = "qe_api" THEN pc[p] = "idle" ELSE pc[p] = where
QeAfter(where) == IF mode = "qe_api" THEN "idle" ELSE where

\* Employees and search arguments of a caller: the names of main(), salaries
\* at and around the ends of the domain and the ends of the band of main().
DomainEnds ==
  LET q == Query(get_encrypted_fields_map, "salary")
  IN {q.min - 1, q.min, q.max, q.max + 1}
QeCallerNames == {qe_employees[1].name, qe_employees[2].name}
QeCallerSalaries == DomainEnds \cup {MainSearchRange.min_salary, MainSearchRange.max_salary}
QeCallerBounds == {s \in QeCallerSalaries : InDomain(Query(get_encrypted_fields_map, "salary"), s)}

\* lines 64-65 (18-24): the key file is created when it is missing, then read.
qe_load_local_master_key(p) ==
  /\ mode \in {"qe_main", "qe_api"}
  /\ pc[p] = "qe_load"
  /\ IF ~FileExists(keyFile)
       THEN /\ keyFile' = WriteAndClose(OpenForWrite(keyFile), MasterKey)
            /\ fileWrites' = fileWrites + 1
       ELSE UNCHANGED <<keyFile, fileWrites>>
  /\ masterKey' = Set(masterKey, p, ReadFile(keyFile'))
  /\ pc' = Set(pc, p, "qe_client")
  /\ UNCHANGED <<mode, vaultIndexes, vault, coll, called, client_encryption, key_alt_name,
                 data_key_id, empIdx, emp, encrypted_salary, decrypted, err, attempts,
                 printed>>

\* lines 67-77: AutoEncryptionOpts(kms_providers, ..., encrypted_fields_map) and
\* MongoClient(uri, auto_encryption_opts); the client holds the master key.
qe_client(p) ==
  /\ pc[p] = "qe_client"
  /\ IF ValidLocalKey(masterKey[p]) /\ ValidFieldsMap(get_encrypted_fields_map)
       THEN /\ client_encryption' = Set(client_encryption, p, masterKey[p])
            /\ pc' = Set(pc, p, QeAfter("qe_drop"))
            /\ err' = err
       ELSE /\ Raise(p, IF ValidLocalKey(masterKey[p]) THEN SchemaValidationError
                                                        ELSE "MongoCryptError")
            /\ UNCHANGED client_encryption
  /\ UNCHANGED <<mode, shared, called, masterKey, key_alt_name, data_key_id, empIdx, emp,
                 encrypted_salary, decrypted, attempts, printed>>

\* line 82: collection.drop()
qe_drop(p) ==
  /\ mode \in {"qe_main", "qe_api"}
  /\ QeAt(p, "qe_drop")
  /\ coll' = << >>
  /\ pc' = Set(pc, p, QeAfter("qe_insert"))
  /\ empIdx' = Set(empIdx, p, 0)
  /\ printed' = Set(printed, p, NoOutput)
  /\ UNCHANGED <<mode, keyFile, fileWrites, vaultIndexes, vault, called, masterKey,
                 client_encryption, key_alt_name, data_key_id, emp, encrypted_salary,
                 decrypted, err, attempts>>

\* lines 92-93: for employee in employees: collection.insert_one(employee.__dict__)
\* The driver encrypts the declared fields before anything is sent; a salary
\* outside the declared domain makes the encryption, and the insert, fail.
qe_insert_one(p) ==
  /\ mode \in {"qe_main", "qe_api"}
  /\ QeAt(p, "qe_insert")
  /\ \E e \in (IF mode = "qe_main" THEN {qe_employees[empIdx[p] + 1]}
               ELSE {[name |-> n, salary |-> s] : n \in QeCallerNames, s \in QeCallerSalaries}) :
       /\ mode = "qe_api" => Len(coll) < MaxQeDocs
       /\ emp' = Set(emp, p, e)
       /\ IF InDomain(Query(get_encrypted_fields_map, "salary"), e.salary)
            THEN /\ coll' = Append(coll, AutoEncrypt(get_encrypted_fields_map, e))
                 /\ empIdx' = Set(empIdx, p, empIdx[p] + 1)
                 /\ pc' = Set(pc, p, IF mode = "qe_main" /\ empIdx[p] + 1 < Len(qe_employees)
                                       THEN "qe_insert" ELSE QeAfter("qe_by_name"))
                 /\ err' = err
            ELSE /\ Raise(p, DomainRangeError)
                 /\ UNCHANGED <<coll, empIdx>>
  /\ printed' = Set(printed, p, NoOutput)
  /\ UNCHANGED <<mode, keyFile, fileWrites, vaultIndexes, vault, called, masterKey,
                 client_encryption, key_alt_name, data_key_id, encrypted_salary,
                 decrypted, attempts>>

\* lines 44-49: search_by_name(coll, name) prints the documents coll.find(filter) returns
search_by_name(p) ==
  /\ mode \in {"qe_main", "qe_api"}
  /\ QeAt(p, "qe_by_name")
  /\ \E name \in (IF mode = "qe_main" THEN {MainSearchName} ELSE QeCallerNames) :
       LET Test(doc) == filter_name(doc, name)
       IN printed' = Set(printed, p, [header |-> <<"name", name>>,
                                      docs |-> Decrypted(SelectSeq(coll, Test))])
  /\ pc' = Set(pc, p, QeAfter("qe_by_range"))
  /\ UNCHANGED <<mode, shared, called, masterKey, client_encryption, key_alt_name,
                 data_key_id, empIdx, emp, encrypted_salary, decrypted, err, attempts>>

\* lines 51-56: search_by_salary_range(coll, min_salary, max_salary)
search_by_salary_range(p) ==
  /\ mode \in {"qe_main", "qe_api"}
  /\ QeAt(p, "qe_by_range")
  /\ \E r \in (IF mode = "qe_main" THEN {MainSearchRange}
               ELSE {[min_salary |-> a, max_salary |-> b] : a, b \in QeCallerBounds}) :
       /\ r.min_salary <= r.max_salary
       /\ LET Test(doc) ==
                filter_gte_lte(get_encrypted_fields_map, doc, r.min_salary, r.max_salary)
          IN printed' = Set(printed, p,
                            [header |-> <<"salary", r.min_salary, r.max_salary>>,
                             docs |-> Decrypted(SelectSeq(coll, Test))])
  /\ pc' = Set(pc, p, QeAfter("done"))
  /\ UNCHANGED <<mode, shared, called, masterKey, client_encryption, key_alt_name,
                 data_key_id, empIdx, emp, encrypted_salary, decrypted, err, attempts>>

\* The process is at line 65 of main(); the other processes do not take part.
InitQe ==
  /\ mode \in {"qe_main", "qe_api"}
  /\ pc = [p \in Procs |-> IF p \in Callers THEN "qe_load" ELSE "idle"]
  /\ keyFile \in {NoFile, MasterKey}
  /\ fileWrites = 0
  /\ vaultIndexes = {}
  /\ vault = {}
  /\ coll = << >>
  /\ InitLocals

QeStep(p) ==
  \/ qe_load_local_master_key(p)
  \/ qe_client(p)
  \/ qe_drop(p)
  \/ qe_insert_one(p)
  \/ search_by_name(p)
  \/ search_by_salary_range(p)

NextQe == \E p \in Callers : QeStep(p)

QeSpec == InitQe /\ [][NextQe]_vars

\* A caller of either program: the functions of the field-level encryption
\* example or the operations of the Queryable Encryption example.
InitCallers == InitApi \/ (InitQe /\ mode = "qe_api") \/ (InitQe /\ mode = "qe_main")
NextCallers == NextApi \/ NextQe
CallersSpec == InitCallers /\ [][NextCallers]_vars

\* ============================================================= claims
RecordsFor(alias) == {r \in vault : alias \in r.keyAltNames}
NoAliasRecords == {r \in vault : r.keyAltNames = {}}
Operational(p) == SetupFunctions \subseteq called[p]
ExpectedDollars(salary) == [units |-> salary, hundredths |-> 0]
Rows(p) == {decrypted[p][i] : i \in 1..Len(decrypted[p])}

\* C1: the alias has exactly one vault record once any ensure_data_key call is
\* over, and every ensure_data_key call that is over, however the calls were
\* interleaved, has returned that record's id without an exception.
C1_EveryCallerGetsTheOneRecord ==
  \A p \in Procs :
    ("ensure_data_key" \in called[p] \/ err[p] = DuplicateAliasError)
      => /\ Cardinality(RecordsFor(key_alt_name[p])) = 1
         /\ err[p] = Unset
         /\ data_key_id[p] = FindOne(vault, key_alt_name[p]).id

\* C2: the caller of ensure_data_key never sees the duplicate-alias error of a
\* lost race: no process is ended by it.
C2_DuplicateAliasNeverSurfaced ==
  \A p \in Procs : err[p] # DuplicateAliasError

\* C3: once some ensure_key_vault_index call has completed, no two key
\* documents share an alias, whatever the interleaving of the ensure_data_key
\* calls; the documents without an alias neither make the index build fail
\* nor cause an insert to be rejected, and all of them stay in the vault.
C3_AliasUnique ==
  /\ (\E p \in Procs : "ensure_key_vault_index" \in called[p])
       => \A r1 \in vault, r2 \in vault :
            r1 # r2 => r1.keyAltNames \cap r2.keyAltNames = {}
  /\ \A p \in Procs :
       /\ err[p] \notin {"DuplicateKeyError", "OperationFailure"}
       /\ err[p] = DuplicateAliasError => RecordsFor(key_alt_name[p]) # {}
  /\ \E k \in 0..MaxNoAlias : NoAliasRecords = NoAliasKeys(k)

\* C3 witness: the index is ensured, two documents without alias sit in the
\* vault beside the aliased one, and a racing insert of the alias was rejected.
C3_Witness ==
  /\ \E p \in Procs : "ensure_key_vault_index" \in called[p]
  /\ Cardinality(NoAliasRecords) >= 2
  /\ Cardinality(RecordsFor(MainAlias)) = 1
  /\ \E p \in Procs : err[p] = DuplicateAliasError

\* C4: in a sequence of calls of load_local_master_key the key file is written
\* at most once, a key that is there is never replaced, and every call returns
\* the same bytes, those of the file.
C4_LoadOrCreateOnce ==
  /\ fileWrites <= 1
  /\ keyFile = MasterKey => fileWrites = 1
  /\ \A p \in Procs : masterKey[p] # Unset => masterKey[p] = MasterKey /\ keyFile = MasterKey

\* C4 witness: a later call, made with the key loaded before, has found the
\* file and is about to read it.
C4_Witness ==
  \E p \in Procs : pc[p] = "lmk_read" /\ masterKey[p] = MasterKey /\ fileWrites = 1

\* C5: with concurrent callers the key file is written by one of them only, and
\* every caller that has returned holds the complete key.
C5_SingleWriterCompleteKey ==
  /\ fileWrites <= 1
  /\ \A p \in Procs : masterKey[p] \in {Unset, MasterKey}

\* C6: a salary was encrypted, or rows were decrypted, only by a caller that had
\* reached Operational: master key loaded, vault index ensured, client
\* encryption set up and data key ensured.
C6_OnlyWhenOperational ==
  \A p \in Procs :
    (encrypted_salary[p] # NoValue \/ decrypted[p] # << >>) => Operational(p)

C8_NoPlaintextStored ==
  \A i \in 1..Len(coll) :
    LET shown == Shown(coll)[i].salary
    IN /\ shown.bsonType = "binary6"
       /\ shown.keyId # NoKeyId
       /\ shown.ct # coll[i].g_salary
       /\ shown.ct # SalaryInCents(coll[i].g_salary)

\* C8 witness: the documents of two runs of __main__ are in the collection.
C8_Witness ==
  /\ Len(coll) = 2 * Len(employees)
  /\ \A p \in Procs : pc[p] = "done"

\* C9: two stored documents have the same salary payload exactly when they
\* were written from the same salary, whichever process wrote them.
C9_DeterministicAcrossWrites ==
  \A i \in 1..Len(coll), j \in 1..Len(coll) :
    (coll[i].g_salary = coll[j].g_salary) <=> (coll[i].salary = coll[j].salary)

\* C9 witness: two processes that raced on the alias both wrote: one created
\* the key, the other found it, and the collection holds the same salary twice
\* and two different salaries.
C9_Witness ==
  /\ \E i \in 1..Len(coll), j \in 1..Len(coll) :
       i # j /\ coll[i].g_salary = coll[j].g_salary
  /\ \E i \in 1..Len(coll), j \in 1..Len(coll) :
       coll[i].g_salary # coll[j].g_salary
  /\ \A p \in Procs : "ensure_data_key" \in called[p]

SalaryDomainMin == 0
SalaryDomainMax == 1000000
InSalaryDomain(s) == SalaryDomainMin <= s /\ s <= SalaryDomainMax

Inserted == [i \in 1..Len(coll) |-> coll[i].g]
InBand(e, lo, hi) == lo <= e.salary /\ e.salary <= hi
BandOf(h) == LET Test(e) == InBand(e, h[2], h[3]) IN SelectSeq(Inserted, Test)

\* C12: what search_by_salary_range(min_salary, max_salary) prints is, name
\* and salary in clear, exactly the inserted employees whose salary s has
\* min_salary <= s <= max_salary, both ends included, and no others; the
\* search of main() for 150000..200000 prints Bob Smith and Charlie Brown.
C12_RangeSearchExact ==
  \A p \in Callers :
    LET h == printed[p].header
    IN (Len(h) = 3 /\ h[1] = "salary") =>
         /\ printed[p].docs = BandOf(h)
         /\ mode = "qe_main" =>
              /\ h = <<"salary", 150000, 200000>>
              /\ printed[p].docs = << [name |-> "Bob Smith", salary |-> 150000],
                                      [name |-> "Charlie Brown", salary |-> 200000] >>

\* A search whose two ends are both salaries of stored documents, with a
\* stored document outside the band as well: the search of main().
C12_Witness ==
  \E p \in Callers :
    /\ printed[p].header = <<"salary", 150000, 200000>>
    /\ Len(printed[p].docs) = 2
    /\ Len(coll) = 5

\* C13: with the index present a call of ensure_key_vault_index issues no
\* create_index and leaves the indexes of the vault as they are, so over any
\* sequence of calls the indexes change once, from none to the one index.
C13_EnsureIndexIdempotent ==
  [][\A p \in Callers :
       /\ KeyAltNamesIndex \in vaultIndexes =>
            /\ vaultIndexes' = vaultIndexes
            /\ pc'[p] # "ekvi_create"
       /\ vaultIndexes' # vaultIndexes =>
            /\ vaultIndexes = {}
            /\ vaultIndexes' = {KeyAltNamesIndex}]_vars

\* A caller that has completed a call starts another with the index present.
C13_Witness ==
  \E p \in Callers :
    /\ mode = "api"
    /\ pc[p] = "ekvi_info"
    /\ "ensure_key_vault_index" \in called[p]
    /\ KeyAltNamesIndex \in vaultIndexes

\* One declared field as the claim wants it: exactly one query; a range query
\* over an orderable type with min <= max.
WellFormedField(f) ==
  /\ Len(f.queries) = 1
  /\ f.queries[1].queryType = "range" =>
       /\ f.bsonType \in {"int", "long", "double", "decimal", "date"}
       /\ f.queries[1].min <= f.queries[1].max

FromDrop == {"drop", "ekvi_info", "ekvi_create", "setup_ce", "edk_find", "edk_create",
             "encrypt", "insert", "find_dec", "find_raw", "done"}
FromSetup == {"setup_ce", "edk_find", "edk_create", "encrypt", "insert", "find_dec",
              "find_raw", "done"}
FromLoop == {"encrypt", "insert", "find_dec", "find_raw", "done"}
FromRead == {"find_dec", "find_raw", "done"}

\* C15: every run of __main__ has loaded the master key before it ensures the
\* index, has ensured the index before it ensures the data key, holds the data
\* key before it encrypts, inserts a document only with the salary of that
\* employee encrypted under the data key, and reads back only after its last
\* insert; no record of the alias is in a vault without the index, and every
\* stored salary is encrypted.
C15_StepsInOrder ==
  /\ \A p \in Procs :
       /\ pc[p] \in FromDrop =>
            /\ "load_local_master_key" \in called[p]
            /\ masterKey[p] # Unset
       /\ pc[p] \in FromSetup =>
            /\ "ensure_key_vault_index" \in called[p]
            /\ KeyAltNamesIndex \in vaultIndexes
       /\ pc[p] \in {"edk_find", "edk_create"} =>
            /\ "setup_client_encryption" \in called[p]
            /\ "ensure_data_key" \notin called[p]
       /\ pc[p] \in FromLoop =>
            /\ "ensure_data_key" \in called[p]
            /\ data_key_id[p] # NoKeyId
            /\ empIdx[p] \in 1..Len(employees)
       /\ pc[p] = "insert" =>
            /\ encrypted_salary[p].bsonType = "binary6"
            /\ encrypted_salary[p].keyId = data_key_id[p]
            /\ encrypted_salary[p].tag =
                 Mac(KeyById(vault, data_key_id[p]).keyMaterial, SalaryInCents(emp[p].salary))
       /\ pc[p] \in FromRead => empIdx[p] = Len(employees)
       /\ decrypted[p] # << >> => pc[p] \in {"find_raw", "done", "crashed"}
       /\ pc[p] \notin FromLoop => encrypted_salary[p] = NoValue
  /\ RecordsFor(MainAlias) # {} => KeyAltNamesIndex \in vaultIndexes
  /\ \A i \in 1..Len(coll) : coll[i].salary.bsonType = "binary6"

\* A run has read back and decrypted the documents it inserted.
C15_Witness ==
  \E p \in Procs :
    /\ mode = "main"
    /\ pc[p] = "done"
    /\ Len(decrypted[p]) = Len(employees)
    /\ SetupFunctions \subseteq called[p]

\* C16: no step of any call removes or changes a record of the vault, and a
\* record is added only for an alias that has none: ensure_data_key on an
\* alias that has a record writes nothing, whatever calls came in between.
C16_DataKeyImmutable ==
  [][/\ vault \subseteq vault'
     /\ \A r \in vault' \ vault :
          /\ \A q \in vault : q.id # r.id
          /\ \A alias \in r.keyAltNames : RecordsFor(alias) = {}
     /\ \A p \in Callers :
          (pc[p] \in {"edk_find", "edk_create"} /\ RecordsFor(key_alt_name[p]) # {}) =>
            /\ vault' = vault
            /\ pc'[p] # "edk_create"]_vars

\* The last call was an ensure_data_key that found the record of its alias, made
\* after a document was written.
C16_Witness ==
  \E p \in Callers :
    /\ mode = "api"
    /\ pc[p] = "idle"
    /\ attempts[p].lookups = 1 /\ attempts[p].inserts = 0
    /\ \E r \in RecordsFor(key_alt_name[p]) : data_key_id[p] = r.id
    /\ coll # << >>

InEnsureDataKey(p) == pc[p] \in {"edk_find", "edk_create"}

\* C17: under fair scheduling every call of ensure_data_key comes to an end,
\* by returning or by raising, and no call makes more than one insert attempt
\* or more than two lookups in the vault.
C17_EnsureDataKeyCompletes ==
  /\ \A p \in Procs : InEnsureDataKey(p) ~> ~InEnsureDataKey(p)
  /\ [](\A p \in Procs : attempts[p].inserts <= 1 /\ attempts[p].lookups <= 2)

\* Two calls raced: both looked up and attempted the insert, one returned and
\* the other ended with the error of the rejected insert.
C17_Witness ==
  \E p, q \in Procs :
    /\ attempts[p].lookups = 1 /\ attempts[p].inserts = 1
    /\ attempts[q].lookups = 1 /\ attempts[q].inserts = 1
    /\ "ensure_data_key" \in called[p]
    /\ pc[q] = "crashed"
    /\ err[q] = DuplicateAliasError

Finished == {p \in Procs : pc[p] = "done"}
BetweenRuns == Finished # {} /\ \A q \in Procs : pc[q] \in {"lmk_exists", "done"}

\* C18: when runs of __main__ follow one another on the same database and key
\* file, no run fails, and after each run the employee collection holds
\* exactly the two employees of __main__, the vault holds exactly one record
\* of the alias, every run so far has returned that record's id, and every
\* run has read the same master key, written once.
C18_SequentialRuns ==
  /\ \A p \in Procs : pc[p] # "crashed"
  /\ Cardinality(RecordsFor(MainAlias)) <= 1
  /\ fileWrites <= 1
  /\ BetweenRuns =>
       /\ Len(coll) = Len(employees)
       /\ \A i \in 1..Len(coll) :
            /\ coll[i].name = employees[i].name
            /\ coll[i].g_salary = employees[i].salary
       /\ Cardinality(RecordsFor(MainAlias)) = 1
       /\ keyFile = MasterKey
       /\ fileWrites = 1
       /\ \A p \in Finished :
            /\ masterKey[p] = MasterKey
            /\ \E r \in RecordsFor(MainAlias) : data_key_id[p] = r.id
            /\ Len(decrypted[p]) = Len(employees)

\* Every process has made its run, one after the other.
C18_Witness ==
  /\ Finished = Procs
  /\ Len(coll) = Len(employees)
  /\ Cardinality(RecordsFor(MainAlias)) = 1
  /\ \A p, q \in Procs : data_key_id[p] = data_key_id[q] /\ data_key_id[p] # NoKeyId

\* C19: when processes call ensure_key_vault_index concurrently, no call ends
\* with an error of create_index, also not the create_index of a process that
\* saw the index absent and asks for it after another built it, and the vault
\* never has an index other than the one keyAltNames index, which it has as
\* soon as some call is over.
C19_ConcurrentEnsureIndex ==
  /\ \A p \in Procs :
       /\ err[p] \notin {"OperationFailure", "DuplicateKeyError"}
       /\ "ensure_key_vault_index" \in called[p] => vaultIndexes = {KeyAltNamesIndex}
  /\ Cardinality({ix \in vaultIndexes : ix.name = "keyAltNames_1"}) <= 1
  /\ vaultIndexes \subseteq {KeyAltNamesIndex}

\* A process that saw the index absent is at its create_index after the call
\* of another process has built the index, and the vault holds key documents
\* without keyAltNames.
C19_Witness ==
  \E p, q \in Procs :
    /\ p # q
    /\ "ensure_key_vault_index" \in called[p]
    /\ pc[q] = "ekvi_create"
    /\ vaultIndexes = {KeyAltNamesIndex}
    /\ Cardinality(NoAliasRecords) = MaxNoAlias

\* A step of one of the four reading functions.
ReadStep(p) ==
  \/ pc[p] \in {"find_dec", "find_raw"} /\ pc'[p] # pc[p]
  \/ printed'[p] # printed[p] /\ printed'[p].header # << >>
NamedLike(n) == LET Test(e) == e.name = n IN SelectSeq(Inserted, Test)

\* C20: a step of find_all_and_decrypt_salaries, find_all_without_decryption,
\* search_by_name or search_by_salary_range leaves the employee collection,
\* the key vault with its indexes and the master-key file as they are; and
\* what search_by_name(name) prints is, in clear, exactly the inserted
\* employees whose name is the given name.
C20_ReadsChangeNothing ==
  /\ [][\A p \in Callers : ReadStep(p) => UNCHANGED <<coll, vault, vaultIndexes, keyFile,
                                                      fileWrites>>]_vars
  /\ [](\A p \in Callers :
         LET h == printed[p].header
         IN (Len(h) = 2 /\ h[1] = "name") => printed[p].docs = NamedLike(h[2]))

\* The search of main() for one name, over the five stored documents.
C20_Witness ==
  \E p \in Callers :
    /\ printed[p].header = <<"name", "Alice Johnson">>
    /\ printed[p].docs = << [name |-> "Alice Johnson", salary |-> 100000] >>
    /\ Len(coll) = 5

====
